---- MODULE Spec2Model ----
(***************************************************************************)
(* Model of vity's command line driver (src/src/vity/cli.py): one          *)
(* `vity do` / `vity chat` invocation of main(), the shell function that   *)
(* wraps it (_get_shell_script_content) and the files both touch.          *)
(*                                                                         *)
(* Strings are sequences of one-character strings, so that splitting,      *)
(* replacing and printing are computed as Python and the shell compute     *)
(* them.  The three emoji of the messages are written as the one-element   *)
(* tokens "<robot>", "<warn>" and "<cross>".                               *)
(***************************************************************************)
EXTENDS Integers, Sequences, FiniteSets, TLC

VARIABLES
    zsh,        \* whether $SHELL names zsh
    terminals,  \* how many terminals run vity at once (1: one shell, 2: a second terminal too)
    shells,     \* the stack of interactive shells; the last is the one the user types in
    nextId,     \* the next timestamp+pid name `record` gives a log/chat file pair
    logs,       \* the log files that exist
    chatFile,   \* chat path -> [exists, data]: the JSON tokens the file holds
    diskHist,   \* the lines of the on-disk shell history file
    screen,     \* what the wrapper call in progress has displayed
    injected,   \* the entries the wrapper call in progress added to the in-memory history
    wrap,       \* the wrapper function: "idle" | "do" | "chat" | "returned"
    started,    \* how many invocations of main() have been started
    proc        \* the vity processes: 1 is the wrapper's child, 2 a direct call from a terminal

vars == <<zsh, terminals, shells, nextId, logs, chatFile, diskHist, screen, injected, wrap, started, proc>>

----------------------------------------------------------------------------
(* Bounds of the model. *)

MaxInvocations == 2
MaxRecords == 2
MaxChunks == 3
MaxMessages == 3

Procs == 1..2

\* the chat files: those of the recordings, named 1..MaxRecords in the order `record`
\* creates them, and one the user names on the command line
UserChat == MaxRecords + 1
Paths == 1..UserChat

----------------------------------------------------------------------------
(* Literals of the program. *)

NL == "\n"
Delim == <<" ", "#", " ">>
Marker == <<" ", "*", " ", "v", "i", "t", "y", " ", "g", "e", "n", "e", "r", "a", "t", "e", "d", " ", "c", "o", "m", "m", "a", "n", "d">>
Sentinel == <<"_", "_", "V", "I", "T", "Y", "_", "C", "M", "D", "_", "_", ":">>
CmdLabel == <<"C", "o", "m", "m", "a", "n", "d", ":", " ">>
ErrLabel == <<"<cross>", " ", "E", "r", "r", "o", "r", ":", " ">>
Thinking == <<"<robot>", " ", "V", "i", "t", "y", " ", "i", "s", " ", "t", "h", "i", "n", "k", "i", "n", "g", ".", ".", ".">>
WarnHistory == <<"<warn>", " ", " ", "W", "a", "r", "n", "i", "n", "g", ":", " ", "h", "i", "s", "t", "o", "r", "y", " ", "f", "i", "l", "e">>
WarnChat == <<"<warn>", " ", " ", "W", "a", "r", "n", "i", "n", "g", ":", " ", "c", "h", "a", "t", " ", "f", "i", "l", "e">>
WarnNoRecording == <<"<warn>", " ", " ", "N", "o", " ", "a", "c", "t", "i", "v", "e", " ", "r", "e", "c", "o", "r", "d", "i", "n", "g", ".">>
Traceback == <<"T", "r", "a", "c", "e", "b", "a", "c", "k">>
ZshStamp == <<":", " ", "<time>", ":", "0", ";">>
TagStart == "<terminal_history>"
TagEnd == "</terminal_history>"
UserPrompt == <<"p">>
LogText == <<"$", " ", "l", "s">>
ExcText == <<"e">>

----------------------------------------------------------------------------
(* Python's str operations on sequences of characters. *)

\* s[i:i+len(sub)] == sub, with i counted from 1
MatchAt(s, sub, i) ==
    /\ i >= 1
    /\ i + Len(sub) - 1 <= Len(s)
    /\ SubSeq(s, i, i + Len(sub) - 1) = sub

\* s.find(sub) counted from 1; 0 when sub does not occur
Find(s, sub) ==
    LET hits == {i \in 1..Len(s) : MatchAt(s, sub, i)}
    IN  IF hits = {} THEN 0 ELSE CHOOSE i \in hits : \A j \in hits : i <= j

\* sub in s
Contains(s, sub) == Find(s, sub) # 0

StartsWith(s, pre) == MatchAt(s, pre, 1)

RECURSIVE Split(_, _)
\* s.split(sep): the pieces between the non-overlapping occurrences of sep, left to right
Split(s, sep) ==
    LET i == Find(s, sep)
    IN  IF i = 0
        THEN <<s>>
        ELSE <<SubSeq(s, 1, i - 1)>> \o Split(SubSeq(s, i + Len(sep), Len(s)), sep)

RECURSIVE Replace(_, _, _)
\* s.replace(old, new): every non-overlapping occurrence of old, left to right
Replace(s, old, new) ==
    LET i == Find(s, old)
    IN  IF i = 0
        THEN s
        ELSE SubSeq(s, 1, i - 1) \o new \o Replace(SubSeq(s, i + Len(old), Len(s)), old, new)

\* the lines print(s) adds to a stream: s followed by a newline
PrintLines(s) == Split(s, <<NL>>)

----------------------------------------------------------------------------
(* Messages and the chat history. *)

Msg(role, text) == [role |-> role, content |-> <<[text |-> text]>>]

NoFile == [exists |-> FALSE, data |-> <<>>]

\* a user message whose content list is empty: message["content"][0] raises IndexError
BadUserMsg == [role |-> "user", content |-> <<>>]

RECURSIVE LastIndex(_, _)
\* `for m in reversed(h): if m["role"] == role: ... break`: the index found, 0 if none
LastIndex(h, role) ==
    IF h = <<>> THEN 0
    ELSE IF h[Len(h)].role = role THEN Len(h)
    ELSE LastIndex(SubSeq(h, 1, Len(h) - 1), role)

----------------------------------------------------------------------------
(* The response parser of `do` mode. *)

\* cmd_string of lines 213-219
CmdString(content) ==
    IF Contains(content, Delim)
    THEN LET parts == Split(content, Delim)
         IN  parts[1] \o Delim \o Replace(parts[2], Marker, <<>>)
    ELSE content

----------------------------------------------------------------------------
(* The collaborators of vity/llm.py, which is not part of the sources:     *)
(* modelled from the specification's sections 4.1 and 6.                   *)

\* remove_terminal_history_tags(text): one start/end pair and what it encloses
RemoveTags(text) ==
    LET i == Find(text, <<TagStart>>)
        j == Find(text, <<TagEnd>>)
    IN  IF i # 0 /\ j > i
        THEN SubSeq(text, 1, i - 1) \o SubSeq(text, j + 1, Len(text))
        ELSE text

HasTag(text) == \E i \in 1..Len(text) : text[i] \in {TagStart, TagEnd}

\* the text of the user message the collaborator builds: the terminal history, when
\* there is one, inside the tag, then the prompt
Embed(th, prompt) ==
    IF th # <<>> THEN <<TagStart>> \o th \o <<TagEnd>> \o prompt ELSE prompt

\* generate_command / generate_chat_response: the history with the new turns appended
Generate(th, chat, prompt, reply) ==
    chat \o <<Msg("user", Embed(th, prompt)), Msg("assistant", reply)>>

----------------------------------------------------------------------------
(* The chat file: json.dump writes "[", the messages, "]"; json.load       *)
(* accepts exactly that and raises JSONDecodeError on anything else.       *)

LBracket == [role |-> "[", content |-> <<>>]
RBracket == [role |-> "]", content |-> <<>>]

\* json.dump(updated_chat_history, f) of lines 248 and 272
Dump(h) == <<LBracket>> \o h \o <<RBracket>>

\* json.load succeeds
WellFormed(data) ==
    /\ Len(data) >= 2
    /\ data[1] = LBracket
    /\ data[Len(data)] = RBracket
    /\ \A i \in 2..(Len(data) - 1) : data[i].role \in {"user", "assistant"}

\* what json.load returns
Parse(data) == SubSeq(data, 2, Len(data) - 1)


\* LoadedHistory that starts fresh whatever the file holds
LoadedFresh(file) == <<>>

\* chat_history of lines 180-190
LoadedHistory(file) ==
    IF file.exists /\ WellFormed(file.data) THEN Parse(file.data) ELSE <<>>

\* the except json.JSONDecodeError branch of line 188 is taken
LoadWarns(file) == file.exists /\ ~WellFormed(file.data)

\* f.write at the start of a file opened with "w": bytes beyond the written ones stay
WriteAtStart(old, data) == data \o SubSeq(old, Len(data) + 1, Len(old))

----------------------------------------------------------------------------
(* One invocation of main() for `do` or `chat`.                            *)
(*                                                                         *)
(* pc: "idle", then "read" (lines 170-192), "gen" (194-224, 250-267),      *)
(* "append" (226-242), "open" and "write" (246-248, 270-272), "done".      *)
(* got is the history as the collaborator returned it and pre the chat     *)
(* files as they were when the process started; fault, handled,            *)
(* appendFailed, called, emitted and appended record what happened.  These *)
(* fields serve the properties below; the program does not read them.      *)

Idle ==
    [pc |-> "idle", mode |-> "", hf |-> "none", hpath |-> 0, cf |-> 0,
     th |-> <<>>, chat |-> <<>>, got |-> <<>>, upd |-> <<>>, cmd |-> <<>>, out |-> <<>>, exit |-> -1,
     fault |-> "none", handled |-> FALSE, appendFailed |-> FALSE, called |-> FALSE,
     emitted |-> FALSE, appended |-> <<>>, pre |-> [c \in Paths |-> NoFile]]

\* the process as main() starts on its arguments: -f (hf, hpath), -c (cf) and the subcommand
Started(mode, hf, hpath, cf) ==
    [Idle EXCEPT !.pc = "read", !.mode = mode, !.hf = hf, !.hpath = hpath, !.cf = cf,
                 !.pre = chatFile]

\* print(s)
Printed(rec, s) == [rec EXCEPT !.out = @ \o PrintLines(s)]

\* except Exception as e (lines 274-276): the message, then sys.exit(1)
Handled(rec, step) ==
    [Printed(rec, ErrLabel \o ExcText) EXCEPT
        !.pc = "done", !.exit = 1, !.fault = step, !.handled = TRUE]

\* an exception no handler of main() catches: the interpreter prints the traceback, status 1
Escaped(rec, step) ==
    [rec EXCEPT !.out = @ \o <<Traceback>>, !.pc = "done", !.exit = 1, !.fault = step]

\* the outcome of an exception raised while reading the -f file
ReadFailure(rec) == Escaped(rec, "read")

\* the outcome of an exception, other than the two tolerated, raised while loading the -c file
LoadFailure(rec) == Escaped(rec, "load")

\* the terminal history after `except FileNotFoundError` (line 176)
MissingHistory == <<>>

\* HistoryRead without the `except FileNotFoundError` of line 176
HistoryReadUncaught(rec) ==
    IF rec.hf = "none" THEN {rec}
    ELSE IF rec.hf = "missing" THEN {ReadFailure(rec)}
    ELSE {[rec EXCEPT !.th = LogText], ReadFailure(rec)}

\* lines 170-177: the process with the terminal history read, or the outcomes of a failure
HistoryRead(rec) ==
    IF rec.hf = "none" THEN {rec}
    ELSE IF rec.hf = "missing" THEN {[Printed(rec, WarnHistory) EXCEPT !.th = MissingHistory]}
    ELSE {[rec EXCEPT !.th = LogText], ReadFailure(rec)}

\* lines 179-190: the process with the chat history loaded, or the outcomes of a failure
ChatLoaded(rec) ==
    IF rec.cf = 0 THEN {rec}
    ELSE LET file == chatFile[rec.cf]
             warned == IF LoadWarns(file) THEN Printed(rec, WarnChat) ELSE rec
         IN  {[warned EXCEPT !.chat = LoadedHistory(file)]}
             \cup (IF file.exists THEN {LoadFailure(rec)} ELSE {})

\* lines 170-192: both context files, then the "thinking" line
LoadContext(p) ==
    /\ proc[p].pc = "read"
    /\ \E r \in HistoryRead(proc[p]) :
         \/ /\ r.pc = "done"
            /\ proc' = [proc EXCEPT ![p] = r]
         \/ /\ r.pc # "done"
            /\ \E c \in ChatLoaded(r) :
                 proc' = [proc EXCEPT ![p] =
                            IF c.pc = "done" THEN c
                            ELSE [Printed(c, Thinking) EXCEPT !.pc = "gen"]]
    /\ UNCHANGED <<zsh, terminals, shells, nextId, logs, chatFile, diskHist, screen, injected, wrap, started>>

\* the assistant texts the collaborator answers with
ReplyMarked == <<"l", "s">> \o Delim \o <<"c">> \o Marker
ReplyTwoLines == <<"l", "s", NL, "p", "w", "d">>
Replies == {<<>>, ReplyMarked, ReplyTwoLines}

\* the histories the collaborator may return: its contract (one user and one assistant
\* message appended), and the two shapes main() guards against (no assistant message,
\* a message without content)
Returned(th, chat, replies) ==
    {Generate(th, chat, UserPrompt, reply) : reply \in replies}
    \cup {chat \o <<Msg("user", Embed(th, UserPrompt))>>,
          chat \o <<BadUserMsg, Msg("assistant", ReplyMarked)>>}

\* GenerateFailure that passes over the exception and goes on to save, with nothing
\* returned to save
GenerateFailureSwallowed(rec) == [rec EXCEPT !.fault = "gen", !.pc = "open"]

\* the outcome of an exception raised by the collaborator (inside the try of line 194)
GenerateFailure(rec) == Handled(rec, "gen")

\* message["content"][0] of lines 201 and 255 raises IndexError
StripRaises(h) ==
    LET i == LastIndex(h, "user") IN i # 0 /\ h[i].content = <<>>

\* StripLastUser removing the tag from every user message
StripEveryUser(h) ==
    [i \in 1..Len(h) |->
        IF h[i].role = "user" THEN [h[i] EXCEPT !.content[1].text = RemoveTags(@)] ELSE h[i]]

\* StripLastUser scanning from the oldest message instead of the newest
StripFirstUser(h) ==
    LET users == {i \in 1..Len(h) : h[i].role = "user"}
    IN  IF users = {} THEN h
        ELSE LET i == CHOOSE i \in users : \A j \in users : i <= j
             IN  [h EXCEPT ![i].content[1].text = RemoveTags(@)]

\* lines 199-202 and 253-256: the tag is removed from the most recent user message, in place
StripLastUser(h) ==
    LET i == LastIndex(h, "user")
    IN  IF i = 0 THEN h
        ELSE [h EXCEPT ![i].content[1].text = RemoveTags(@)]

\* lines 205-209 and 259-263
LastAssistant(h) == LastIndex(h, "assistant")

\* last_assistant_msg.get("content", [{}])[0].get("text", "")
AssistantText(h) == h[LastAssistant(h)].content[1].text

\* lines 220 and 224: the two prints of `do` mode
EmitCommand(rec, cmd) ==
    [Printed(Printed(rec, CmdLabel \o cmd), Sentinel \o cmd) EXCEPT
        !.cmd = cmd, !.emitted = TRUE, !.pc = "append"]

\* line 267: the print of `chat` mode
EmitReply(rec, content) == [Printed(rec, content) EXCEPT !.pc = "open"]

\* lines 199-224 (do) and 253-267 (chat), on the history h the collaborator returned
PostProcess(rec, h) ==
    IF StripRaises(h) THEN Handled([rec EXCEPT !.got = h], "post")
    ELSE LET s == StripLastUser(h)
             r == [rec EXCEPT !.got = h, !.upd = s]
         IN  IF LastAssistant(s) = 0 THEN [r EXCEPT !.pc = "open"]
             ELSE IF r.mode = "do" THEN EmitCommand(r, CmdString(AssistantText(s)))
             ELSE EmitReply(r, AssistantText(s))

\* lines 194-224 and 250-267: the call of the collaborator, which answers with one of
\* `replies`, and what is done with its result
RespondFrom(p, replies) ==
    /\ proc[p].pc = "gen"
    /\ LET rec == [proc[p] EXCEPT !.called = TRUE]
       IN  \/ \E h \in Returned(rec.th, rec.chat, replies) :
                proc' = [proc EXCEPT ![p] = PostProcess(rec, h)]
           \/ proc' = [proc EXCEPT ![p] = GenerateFailure(rec)]
    /\ UNCHANGED <<zsh, terminals, shells, nextId, logs, chatFile, diskHist, screen, injected, wrap, started>>

Respond(p) == RespondFrom(p, Replies)

\* what lines 235-240 write to the history file, as lines: the zsh form or the plain one
HistoryLines(z, cmd) == PrintLines((IF z THEN ZshStamp ELSE <<>>) \o cmd)

\* `except (IOError, OSError): pass` of lines 241-242: open or write raised an OSError
AppendFailure(rec) == [rec EXCEPT !.pc = "open"]

\* an exception of lines 227-240 that is no OSError (Path.home() raises RuntimeError
\* when no home directory is known, f.write raises UnicodeEncodeError on a command the
\* file's encoding cannot hold) passes the inner try and reaches the handler of line 274
AppendRaises(rec) == Handled(rec, "append")

\* lines 226-242
AppendHistory(p) ==
    /\ proc[p].pc = "append"
    /\ \/ /\ diskHist' = diskHist \o HistoryLines(zsh, proc[p].cmd)
          /\ proc' = [proc EXCEPT ![p] =
                [@ EXCEPT !.appended = HistoryLines(zsh, proc[p].cmd), !.pc = "open"]]
       \/ /\ proc' = [proc EXCEPT ![p] = AppendFailure([@ EXCEPT !.appendFailed = TRUE])]
          /\ UNCHANGED diskHist
       \/ /\ proc' = [proc EXCEPT ![p] = AppendRaises([@ EXCEPT !.appendFailed = TRUE])]
          /\ UNCHANGED diskHist
    /\ UNCHANGED <<zsh, terminals, shells, nextId, logs, chatFile, screen, injected, wrap, started>>

\* what line 248 / 272 hands to json.dump
SavedHistory(rec) == rec.upd

\* lines 246-247 and 270-271: `if args.chat_file:` and open(..., "w"), which truncates
OpenChat(p) ==
    /\ proc[p].pc = "open"
    /\ \/ /\ proc[p].cf = 0
          /\ proc' = [proc EXCEPT ![p] = [@ EXCEPT !.pc = "done", !.exit = 0]]
          /\ UNCHANGED chatFile
       \/ /\ proc[p].cf # 0
          /\ chatFile' = [chatFile EXCEPT ![proc[p].cf] = [exists |-> TRUE, data |-> <<>>]]
          /\ proc' = [proc EXCEPT ![p].pc = "write"]
       \/ /\ proc[p].cf # 0
          /\ proc' = [proc EXCEPT ![p] = Handled(@, "save")]
          /\ UNCHANGED chatFile
    /\ UNCHANGED <<zsh, terminals, shells, nextId, logs, diskHist, screen, injected, wrap, started>>

\* lines 248 and 272: json.dump and the close of the file; a failure leaves what was written
WriteChat(p) ==
    /\ proc[p].pc = "write"
    /\ LET data == Dump(SavedHistory(proc[p]))
           old == chatFile[proc[p].cf].data
       IN  \/ /\ chatFile' = [chatFile EXCEPT ![proc[p].cf].data = WriteAtStart(old, data)]
              /\ proc' = [proc EXCEPT ![p] = [@ EXCEPT !.pc = "done", !.exit = 0]]
           \/ \E k \in {0, Len(data) - 1} :
                /\ chatFile' = [chatFile EXCEPT ![proc[p].cf].data =
                                    WriteAtStart(old, SubSeq(data, 1, k))]
                /\ proc' = [proc EXCEPT ![p] = Handled(@, "save")]
    /\ UNCHANGED <<zsh, terminals, shells, nextId, logs, diskHist, screen, injected, wrap, started>>

----------------------------------------------------------------------------
(* The shell function vity() of _get_shell_script_content, run by the      *)
(* interactive shell the user types in.  A shell is [log, chat]: its       *)
(* VITY_ACTIVE_LOG and VITY_ACTIVE_CHAT (0: unset), recording: the name of *)
(* the log its `script` child writes while it waits for it (0: none), and  *)
(* hist: what has been added to its in-memory history.                     *)

Shell(log, chat) == [log |-> log, chat |-> chat, recording |-> 0, hist |-> <<>>]

Top == shells[Len(shells)]

\* the shell is at its prompt
ShellReady ==
    /\ wrap = "idle"
    /\ proc[1].pc = "idle"
    /\ terminals = 1 => proc[2].pc = "idle"

\* what `unset VITY_ACTIVE_LOG VITY_ACTIVE_CHAT` (line 301) leaves of the shell
AfterRecording(sh) == [sh EXCEPT !.log = 0, !.chat = 0, !.recording = 0]

\* lines 284-299: export the two paths, then `script -f` starts a shell that inherits them
Record ==
    /\ ShellReady
    /\ nextId <= MaxRecords
    /\ shells' = [shells EXCEPT ![Len(shells)] =
                    [@ EXCEPT !.log = nextId, !.chat = nextId, !.recording = nextId]]
                 \o <<Shell(nextId, nextId)>>
    /\ logs' = logs \cup {nextId}
    /\ nextId' = nextId + 1
    /\ UNCHANGED <<zsh, terminals, chatFile, diskHist, screen, injected, wrap, started, proc>>

\* the user types `exit`: `script` returns in the parent shell, which runs lines 301-302
ExitShell ==
    /\ ShellReady
    /\ Len(shells) >= 2
    /\ shells' = [SubSeq(shells, 1, Len(shells) - 1) EXCEPT
                    ![Len(shells) - 1] = AfterRecording(@)]
    /\ UNCHANGED <<zsh, terminals, nextId, logs, chatFile, diskHist, screen, injected, wrap, started, proc>>

\* [[ -n "$VITY_ACTIVE_LOG" && -f "$VITY_ACTIVE_LOG" ]] of lines 307 and 340
ActiveLog(sh) == sh.log # 0 /\ sh.log \in logs

\* the process lines 308/311 and 341/344 start
WrapperChild(sh, mode) ==
    IF ActiveLog(sh) THEN Started(mode, "file", sh.log, sh.chat)
    ELSE Started(mode, "none", 0, 0)

\* lines 304-312 and 338-345, up to the start of the process
Call(mode) ==
    /\ ShellReady
    /\ started < MaxInvocations
    /\ proc' = [proc EXCEPT ![1] = WrapperChild(Top, mode)]
    /\ screen' = IF ActiveLog(Top) THEN <<>> ELSE <<WarnNoRecording>>
    /\ wrap' = mode
    /\ started' = started + 1
    /\ UNCHANGED <<zsh, terminals, shells, nextId, logs, chatFile, diskHist, injected>>

CallDo == Call("do")

CallChat == Call("chat")

RECURSIVE StripTrailingEmpty(_)
StripTrailingEmpty(lines) ==
    IF lines # <<>> /\ lines[Len(lines)] = <<>>
    THEN StripTrailingEmpty(SubSeq(lines, 1, Len(lines) - 1))
    ELSE lines

\* the lines of `echo "$_vity_output"`: $(...) drops the trailing newlines, echo adds one
Captured(out) ==
    IF StripTrailingEmpty(out) = <<>> THEN << <<>> >> ELSE StripTrailingEmpty(out)

IsSentinelLine(line) == StartsWith(line, Sentinel)

NotSentinelLine(line) == ~IsSentinelLine(line)

\* line 325: grep '^__VITY_CMD__:' | head -1 | sed 's/^__VITY_CMD__://'
ExtractCommand(lines) ==
    LET hits == SelectSeq(lines, IsSentinelLine)
    IN  IF hits = <<>> THEN <<>>
        ELSE SubSeq(hits[1], Len(Sentinel) + 1, Len(hits[1]))

\* lines 328-336: what `print -s` / `history -s` is called with
Injection(cmd) == IF cmd # <<>> THEN <<cmd>> ELSE <<>>

\* ChildExited that holds as soon as the sentinel line is printed
ChildPrinted(rec) == rec.emitted

\* _vity_output=$(command vity ... 2>&1) of lines 308 and 311 returns: the process has
\* exited and all of its output is captured
ChildExited(rec) == rec.pc = "done"

\* lines 314-336, once the process has exited
ReturnDo ==
    /\ wrap = "do"
    /\ ChildExited(proc[1])
    /\ LET lines == Captured(proc[1].out)
           cmd == ExtractCommand(lines)
       IN  /\ screen' = screen \o SelectSeq(lines, NotSentinelLine)
           /\ injected' = Injection(cmd)
           /\ shells' = [shells EXCEPT ![Len(shells)].hist = @ \o Injection(cmd)]
    /\ wrap' = "returned"
    /\ UNCHANGED <<zsh, terminals, nextId, logs, chatFile, diskHist, started, proc>>

\* lines 341/344: the process wrote to the terminal itself
ReturnChat ==
    /\ wrap = "chat"
    /\ proc[1].pc = "done"
    /\ screen' = screen \o proc[1].out
    /\ wrap' = "returned"
    /\ UNCHANGED <<zsh, terminals, shells, nextId, logs, chatFile, diskHist, injected, started, proc>>

\* the function has returned: the shell shows its prompt again
ShellPrompt ==
    /\ wrap = "returned"
    /\ wrap' = "idle"
    /\ proc' = [proc EXCEPT ![1] = Idle]
    /\ screen' = <<>>
    /\ injected' = <<>>
    /\ UNCHANGED <<zsh, terminals, shells, nextId, logs, chatFile, diskHist, started>>

----------------------------------------------------------------------------
(* A call of the vity executable itself, with the arguments the user gives. *)

\* the -c of a direct call: none (0), the user's own file, or the chat file of the
\* recording that is active in the shell
DirectChatPaths == {0, UserChat, Top.chat}

StartDirect ==
    /\ proc[2].pc = "idle"
    /\ started < MaxInvocations
    /\ terminals = 1 => (wrap = "idle" /\ proc[1].pc = "idle")
    /\ \E mode \in {"do", "chat"}, hf \in {"none", "missing", "file"}, cf \in DirectChatPaths :
            proc' = [proc EXCEPT ![2] = Started(mode, hf, 0, cf)]
    /\ started' = started + 1
    /\ UNCHANGED <<zsh, terminals, shells, nextId, logs, chatFile, diskHist, screen, injected, wrap>>

\* the process has exited and the terminal is free again
ExitDirect ==
    /\ proc[2].pc = "done"
    /\ proc' = [proc EXCEPT ![2] = Idle]
    /\ UNCHANGED <<zsh, terminals, shells, nextId, logs, chatFile, diskHist, screen, injected, wrap, started>>

----------------------------------------------------------------------------

NoRecording ==
    /\ shells = <<Shell(0, 0)>>
    /\ nextId = 1
    /\ logs = {}

\* the shells once `vity record` has started the first recording
FirstRecording ==
    /\ shells = <<[Shell(1, 1) EXCEPT !.recording = 1], Shell(1, 1)>>
    /\ nextId = 2
    /\ logs = {1}

InitFiles ==
    /\ zsh \in BOOLEAN
    /\ chatFile = [c \in Paths |-> NoFile]
    /\ diskHist = <<>>
    /\ screen = <<>>
    /\ injected = <<>>
    /\ wrap = "idle"

NothingStarted ==
    /\ started = 0
    /\ proc = [p \in Procs |-> Idle]

\* one terminal: invocations follow one another
Init == terminals = 1 /\ NoRecording /\ InitFiles /\ NothingStarted

\* two terminals that share one recording: the wrapper's child and a direct call
\* may run at once
InitConcurrent == terminals = 2 /\ FirstRecording /\ InitFiles /\ NothingStarted

----------------------------------------------------------------------------
(* The response parser on its own: one `do` invocation that has reached    *)
(* the call of the collaborator, which answers with any text made of at    *)
(* most MaxChunks of the chunks below.                                     *)

Chunks == {<<"l">>, Delim, Marker, <<NL>>, <<"#", " ">>}

RECURSIVE TextsUpTo(_)
TextsUpTo(n) ==
    IF n = 0 THEN {<<>>}
    ELSE LET shorter == TextsUpTo(n - 1)
         IN  shorter \cup {t \o c : t \in shorter, c \in Chunks}

Texts == TextsUpTo(MaxChunks)

\* `vity do p`, without -f and -c, about to call the collaborator
AtCollaborator == [Printed(Started("do", "none", 0, 0), Thinking) EXCEPT !.pc = "gen"]

InitParser ==
    /\ terminals = 1
    /\ NoRecording
    /\ InitFiles
    /\ started = 1
    /\ proc = [p \in Procs |-> IF p = 2 THEN AtCollaborator ELSE Idle]

NextParser == RespondFrom(2, Texts)

----------------------------------------------------------------------------
(* The post-processing on its own: one invocation with a chat file that    *)
(* has reached the call of the collaborator, which returns any history of  *)
(* at most MaxMessages of the messages below: user and assistant messages  *)
(* of one or two content parts, with and without a tag in their texts.     *)

TaggedText == Embed(LogText, UserPrompt)

PartLists ==
    {<<[text |-> UserPrompt]>>, <<[text |-> TaggedText]>>,
     <<[text |-> TaggedText], [text |-> TaggedText]>>}

Messages == [role : {"user", "assistant"}, content : PartLists]

RECURSIVE HistoriesUpTo(_)
HistoriesUpTo(n) ==
    IF n = 0 THEN {<<>>}
    ELSE LET shorter == HistoriesUpTo(n - 1)
         IN  shorter \cup {Append(h, m) : h \in shorter, m \in Messages}

Histories == HistoriesUpTo(MaxMessages)

\* `vity do p -c FILE` or `vity chat p -c FILE`, about to call the collaborator
AtCollaboratorWith(mode) ==
    [Printed(Started(mode, "none", 0, UserChat), Thinking) EXCEPT !.pc = "gen"]

InitFrame ==
    /\ terminals = 1
    /\ NoRecording
    /\ InitFiles
    /\ started = 1
    /\ \E mode \in {"do", "chat"} :
            proc = [p \in Procs |-> IF p = 2 THEN AtCollaboratorWith(mode) ELSE Idle]

\* lines 197-224 and 251-267 when the collaborator returns one of Histories
RespondAny ==
    /\ proc[2].pc = "gen"
    /\ \E h \in Histories :
            proc' = [proc EXCEPT ![2] = PostProcess([@ EXCEPT !.called = TRUE], h)]
    /\ UNCHANGED <<zsh, terminals, shells, nextId, logs, chatFile, diskHist, screen, injected, wrap, started>>

NextFrame ==
    \/ RespondAny
    \/ AppendHistory(2)
    \/ OpenChat(2)
    \/ WriteChat(2)


Step(p) ==
    \/ LoadContext(p)
    \/ Respond(p)
    \/ AppendHistory(p)
    \/ OpenChat(p)
    \/ WriteChat(p)

\* the vity executable called from a terminal
NextProcess ==
    \/ StartDirect
    \/ ExitDirect
    \/ Step(2)

\* the interactive shell, its vity() function and the process it starts
NextShell ==
    \/ Record
    \/ ExitShell
    \/ CallDo
    \/ CallChat
    \/ ReturnDo
    \/ ReturnChat
    \/ ShellPrompt
    \/ Step(1)

\* the calls of vity() in a shell whose recording goes on, and the direct calls
NextConcurrent ==
    \/ CallDo
    \/ CallChat
    \/ ReturnDo
    \/ ReturnChat
    \/ ShellPrompt
    \/ \E p \in Procs : Step(p)
    \/ StartDirect
    \/ ExitDirect

\* invocations of the executable, one after the other
Spec == Init /\ [][NextProcess]_vars

\* one interactive shell with the vity() function
SpecShell == Init /\ [][NextShell]_vars

\* a shell's vity() calls and direct calls from a second terminal, at once
SpecConcurrent == InitConcurrent /\ [][NextConcurrent]_vars

\* the response parser applied to every text of Texts
SpecParser == InitParser /\ [][NextParser]_vars

\* the post-processing and the save applied to every history of Histories
SpecFrame == InitFrame /\ [][NextFrame]_vars

----------------------------------------------------------------------------
(* Properties. *)

EndsWith(s, suffix) ==
    /\ Len(suffix) <= Len(s)
    /\ SubSeq(s, Len(s) - Len(suffix) + 1, Len(s)) = suffix

Payload(line, label) == SubSeq(line, Len(label) + 1, Len(line))

SentinelLines(out) == SelectSeq(out, IsSentinelLine)

IsErrorLine(line) == StartsWith(line, ErrLabel)

\* the collaborator was called and its result was post-processed without an exception
Responded(r) == r.called /\ r.fault \notin {"gen", "post"}

\* the returned history follows the collaborator's contract: the history it was given,
\* then one user message, then one assistant message
FollowsContract(r) ==
    /\ Len(r.got) = Len(r.chat) + 2
    /\ SubSeq(r.got, 1, Len(r.chat)) = r.chat
    /\ r.got[Len(r.got) - 1].role = "user"
    /\ Len(r.got[Len(r.got) - 1].content) = 1
    /\ r.got[Len(r.got)].role = "assistant"

\* the reference parser of C1: split at the first delimiter only
ReferenceParse(t) ==
    LET i == Find(t, Delim)
    IN  IF i = 0 THEN t
        ELSE SubSeq(t, 1, i - 1) \o Delim
             \o Replace(SubSeq(t, i + Len(Delim), Len(t)), Marker, <<>>)

\* C1: in do mode the string printed after "Command: " and after the sentinel is the
\* reference parser's result for the assistant text: the text up to its first " # ",
\* then " # ", then all that follows the first " # " (later delimiters included) with
\* the marker removed; the text itself when it holds no delimiter.
C1_EmitsReferenceParse ==
    \A p \in Procs :
        proc[p].pc = "append" =>
            LET ref == ReferenceParse(AssistantText(proc[p].got))
            IN  EndsWith(proc[p].out,
                         PrintLines(CmdLabel \o ref) \o PrintLines(Sentinel \o ref))

\* C2: every invocation that ended because a step raised ended in the top-level
\* handler: its last output line is the error message and its exit status is not 0.
C2_FailuresReachHandler ==
    \A p \in Procs :
        (proc[p].pc = "done" /\ proc[p].fault # "none") =>
            /\ proc[p].handled
            /\ proc[p].exit # 0
            /\ proc[p].out # <<>>
            /\ proc[p].out[Len(proc[p].out)] = ErrLabel \o ExcText

MessageHasTag(m) == \E k \in 1..Len(m.content) : HasTag(m.content[k].text)

\* C3: no message stored in a chat file contains a terminal-history tag.
C3_NoTagStored ==
    \A c \in Paths : \A i \in 1..Len(chatFile[c].data) : ~MessageHasTag(chatFile[c].data[i])

\* C3's case: an invocation that found earlier turns in its chat file got a tagged user
\* message back from the collaborator and has written the file.
C3_Witness ==
    \E p \in Procs :
        /\ proc[p].pc = "done" /\ proc[p].exit = 0 /\ proc[p].cf # 0
        /\ Len(proc[p].chat) >= 2
        /\ FollowsContract(proc[p])
        /\ MessageHasTag(proc[p].got[Len(proc[p].got) - 1])
        /\ chatFile[proc[p].cf].data = Dump(proc[p].upd)

\* the file's messages when it is absent or holds a history json.load accepts
Readable(file) == ~file.exists \/ WellFormed(file.data)

Held(file) == IF file.exists THEN Parse(file.data) ELSE <<>>

\* C4: after a successful invocation whose collaborator kept its contract, a chat file
\* that was given (and was absent or readable) holds the messages it held before the
\* invocation, in order, then the new user message (its tag removed) and the new
\* assistant message as returned; every other chat file is as it was, and with no
\* chat file given all of them are.
C4_AppendOnlyLog ==
    \A p \in Procs :
        LET r == proc[p] IN
        (r.pc = "done" /\ r.exit = 0 /\ FollowsContract(r)) =>
            /\ \A c \in Paths : c # r.cf => chatFile[c] = r.pre[c]
            /\ (r.cf # 0 /\ Readable(r.pre[r.cf])) =>
                    LET n == Len(r.got)
                        user == r.got[n - 1]
                    IN  /\ chatFile[r.cf].exists
                        /\ chatFile[r.cf].data =
                              Dump(Held(r.pre[r.cf])
                                   \o <<Msg("user", RemoveTags(user.content[1].text)), r.got[n]>>)

\* C4's case: a successful invocation on a chat file that already held a turn.
C4_Witness ==
    \E p \in Procs :
        /\ proc[p].pc = "done" /\ proc[p].exit = 0 /\ proc[p].cf # 0
        /\ FollowsContract(proc[p])
        /\ proc[p].pre[proc[p].cf].exists
        /\ WellFormed(proc[p].pre[proc[p].cf].data)
        /\ Len(Held(proc[p].pre[proc[p].cf])) >= 2

HasAssistant(r) == LastAssistant(r.got) # 0

\* the index in out of the "thinking" line, after which the reply is printed
ThinkingAt(out) == CHOOSE i \in 1..Len(out) : out[i] = Thinking

\* C5: a sentinel line is printed exactly when the mode is do and the returned history
\* holds an assistant message; it is then the only sentinel line, the line before it is
\* the "Command: " line, both carry the same string, and that string is the command.
\* In chat mode the assistant text follows the "thinking" line verbatim, and nothing
\* is written to the shell history file.
C5_SentinelLine ==
    \A p \in Procs :
        LET r == proc[p]
            marks == SentinelLines(r.out)
        IN  /\ (marks # <<>>) <=> (Responded(r) /\ r.mode = "do" /\ HasAssistant(r))
            /\ (Responded(r) /\ r.mode = "do" /\ HasAssistant(r)) =>
                    /\ Len(marks) = 1
                    /\ \E i \in 2..Len(r.out) :
                            /\ IsSentinelLine(r.out[i])
                            /\ StartsWith(r.out[i - 1], CmdLabel)
                            /\ Payload(r.out[i - 1], CmdLabel) = Payload(r.out[i], Sentinel)
                            /\ Payload(r.out[i], Sentinel) = r.cmd
            /\ (Responded(r) /\ r.mode = "chat" /\ HasAssistant(r)) =>
                    LET text == PrintLines(AssistantText(r.got))
                        i == ThinkingAt(r.out)
                    IN  /\ SubSeq(r.out, i + 1, i + Len(text)) = text
                        /\ r.appended = <<>>
                        /\ ~r.appendFailed

\* C6: while a terminal-capture child runs, a do/chat call of the wrapper in the shell
\* it recorded passes that recording's log as -f and its chat file as -c; with no such
\* child running the call passes neither.
C6_RecordingPaths ==
    wrap \in {"do", "chat"} =>
        IF Len(shells) >= 2
        THEN /\ proc[1].hf = "file"
             /\ proc[1].hpath = shells[Len(shells) - 1].recording
             /\ proc[1].cf = shells[Len(shells) - 1].recording
        ELSE proc[1].hf = "none" /\ proc[1].cf = 0

Range(f) == {f[i] : i \in DOMAIN f}

\* the command of a line of the history file: the line without zsh's timestamp
Unstamped(line) ==
    IF zsh /\ StartsWith(line, ZshStamp) THEN Payload(line, ZshStamp) ELSE line

\* C7: once a `do` call of the wrapper has returned, and unless the append to the
\* history file failed, the entries it added to the in-memory history and the entries
\* its process added to the history file are the same commands (a blank line of the
\* file, which a shell skips when it reads its history, is not counted as an entry).
C7_SameEntries ==
    (wrap = "returned" /\ proc[1].mode = "do" /\ ~proc[1].appendFailed) =>
        Range(injected) = {Unstamped(line) : line \in Range(proc[1].appended)} \ {<<>>}

\* the two processes are the only invocations so far, and no failure was injected
TwoClean(c) ==
    /\ started = 2
    /\ \A p \in Procs : proc[p].pc # "idle" /\ proc[p].cf = c /\ proc[p].fault = "none"
                          /\ ~proc[p].appendFailed

\* C8: two invocations racing on one chat file, with no failure injected: neither sees a
\* partially written file (no invalid-JSON warning), and when both have ended the file
\* holds the whole history of one of them, never a mix and never a part.
C8_LastWriterWins ==
    \A c \in Paths :
        TwoClean(c) =>
            /\ \A p \in Procs : \A i \in 1..Len(proc[p].out) : proc[p].out[i] # WarnChat
            /\ (\A p \in Procs : proc[p].pc = "done") =>
                    \E p \in Procs : chatFile[c].data = Dump(proc[p].upd)

\* the process is past lines 170-192
PastLoading(r) == r.pc \notin {"idle", "read"}

Warned(r, warning) == \E i \in 1..Len(r.out) : r.out[i] = warning

\* C9: a terminal-history path that does not exist gives the empty terminal history and
\* a warning; a chat path that does not exist gives the empty chat history; a chat file
\* that is not JSON gives the empty chat history and a warning; and none of the three
\* ends the invocation: an invocation that ended without calling the collaborator
\* failed to read a file that exists.
C9_MissingContextTolerated ==
    \A p \in Procs :
        LET r == proc[p] IN
        PastLoading(r) =>
            /\ r.hf = "missing" =>
                    r.th = <<>> /\ Warned(r, WarnHistory) /\ r.fault # "read"
            /\ (r.cf # 0 /\ ~r.pre[r.cf].exists) =>
                    r.chat = <<>> /\ ~Warned(r, WarnChat) /\ r.fault # "load"
            /\ (r.cf # 0 /\ r.pre[r.cf].exists /\ ~WellFormed(r.pre[r.cf].data)
                    /\ r.fault \notin {"read", "load"}) =>
                    r.chat = <<>> /\ Warned(r, WarnChat)
            /\ (r.pc = "done" /\ ~r.called) =>
                    \/ r.fault = "read" /\ r.hf = "file"
                    \/ r.fault = "load" /\ r.pre[r.cf].exists

\* C9's case: the -f path is missing, the -c file is not JSON, and the collaborator
\* has been called.
C9_Witness ==
    \E p \in Procs :
        /\ proc[p].hf = "missing"
        /\ proc[p].cf # 0
        /\ proc[p].pre[proc[p].cf].exists
        /\ ~WellFormed(proc[p].pre[proc[p].cf].data)
        /\ proc[p].called

\* C10: when the append to the history file fails, whatever the failure, the
\* "Command: " and sentinel lines are already printed and the invocation goes on to save
\* the chat file; unless that save fails too, it prints no error message, exits with
\* status 0 and leaves the full updated history in the chat file it was given.
C10_AppendFailureSwallowed ==
    \A p \in Procs :
        LET r == proc[p] IN
        r.appendFailed =>
            /\ r.pc \in {"open", "write", "done"}
            /\ r.fault \in {"none", "save"}
            /\ EndsWith(IF r.fault = "save" THEN SubSeq(r.out, 1, Len(r.out) - 1) ELSE r.out,
                        PrintLines(CmdLabel \o r.cmd) \o PrintLines(Sentinel \o r.cmd))
            /\ (r.pc = "done" /\ r.fault = "none") =>
                    /\ r.exit = 0
                    /\ \A i \in 1..Len(r.out) : ~IsErrorLine(r.out[i])
                    /\ r.cf # 0 => chatFile[r.cf] = [exists |-> TRUE, data |-> Dump(r.upd)]

\* the sentinel line is in the output
SentinelPrinted(r) == SentinelLines(r.out) # <<>>

\* the history-file step of lines 226-242 is over: the lines were appended or the
\* append failed
AppendOver(r) == r.appended # <<>> \/ r.appendFailed

\* C11: the two history writes of a `do` call of the wrapper happen in this order: the
\* sentinel line is printed, then the history file is appended to, then the chat file is
\* written, then the process exits, and only then does the wrapper inject.  At every
\* moment, then, no later step has happened unless the earlier ones are over: nothing
\* is appended before the sentinel is printed, the chat file is as the process found it
\* until the append is over, and nothing is injected until the process has exited.
C11_AppendBeforeInjection ==
    LET r == proc[1] IN
    (wrap \in {"do", "returned"}) =>
        /\ r.pc \in {"read", "gen"} =>
                ~SentinelPrinted(r) /\ r.appended = <<>> /\ chatFile = r.pre /\ injected = <<>>
        /\ r.pc = "append" =>
                SentinelPrinted(r) /\ r.appended = <<>> /\ chatFile = r.pre /\ injected = <<>>
        /\ r.pc \in {"open", "write"} =>
                (r.emitted => AppendOver(r)) /\ injected = <<>>
        /\ chatFile # r.pre => r.pc \in {"write", "done"} /\ (r.emitted => AppendOver(r))
        /\ injected # <<>> => r.pc = "done" /\ SentinelPrinted(r) /\ AppendOver(r)
        /\ r.appended # <<>> => diskHist # <<>> /\ SentinelPrinted(r)

\* C11's case: a `do` call of the wrapper has returned; its process appended to the
\* history file and wrote its chat file, and the wrapper injected the command.
C11_Witness ==
    /\ wrap = "returned" /\ proc[1].mode = "do"
    /\ injected # <<>>
    /\ proc[1].appended # <<>>
    /\ proc[1].cf # 0 /\ proc[1].exit = 0
    /\ chatFile[proc[1].cf].data = Dump(proc[1].upd)

\* the post-processing of the returned history is over and raised nothing
PostProcessed(r) == r.called /\ r.pc \in {"append", "open", "write", "done"}
                        /\ r.fault \notin {"gen", "post"}

\* message b is message a but for the text of its first content part
SameButFirstText(a, b) ==
    /\ b.role = a.role
    /\ Len(b.content) = Len(a.content)
    /\ \A k \in 2..Len(a.content) : b.content[k] = a.content[k]

\* C12: the history an invocation saves (upd) is the history the collaborator returned
\* (got) with at most one change, the text of the first content part of the last user
\* message: the two have the same length, every message other than the last user
\* message is the same at the same place, and the last user message keeps its role and
\* its other content parts; the chat file a successful invocation wrote holds that
\* history.
C12_OnlyLastUserTextChanges ==
    \A p \in Procs :
        LET r == proc[p]
            last == LastIndex(r.got, "user")
        IN  PostProcessed(r) =>
                /\ Len(r.upd) = Len(r.got)
                /\ \A i \in 1..Len(r.got) :
                        IF i = last THEN SameButFirstText(r.got[i], r.upd[i])
                        ELSE r.upd[i] = r.got[i]
                /\ (r.pc = "done" /\ r.exit = 0 /\ r.cf # 0) =>
                        chatFile[r.cf].data = Dump(r.upd)

\* C12's case: the returned history held a tag in an earlier user message, in an
\* assistant message and in both content parts of the last user message; the
\* invocation changed it and wrote it to the chat file.
C12_Witness ==
    \E p \in Procs :
        LET r == proc[p]
            last == LastIndex(r.got, "user")
        IN  /\ PostProcessed(r) /\ r.pc = "done" /\ r.exit = 0 /\ r.cf # 0
            /\ Len(r.got) = 3 /\ last = 3
            /\ r.got[1].role = "user" /\ MessageHasTag(r.got[1])
            /\ r.got[2].role = "assistant" /\ MessageHasTag(r.got[2])
            /\ Len(r.got[3].content) = 2 /\ HasTag(r.got[3].content[2].text)
            /\ r.upd # r.got
            /\ chatFile[r.cf].data = Dump(r.upd)

\* C13: an invocation whose collaborator raised has ended with status 1; every chat file
\* is as it was when the invocation started (absent if it was absent), the invocation
\* appended nothing to the history file and did not try to, its output holds no
\* "Command: " line and no sentinel line and ends with the error message, and a wrapper
\* call that has returned from it injected nothing into the in-memory history.
C13_GenerateFailureChangesNothing ==
    \A p \in Procs :
        LET r == proc[p] IN
        r.fault = "gen" =>
            /\ r.pc = "done" /\ r.exit = 1 /\ r.handled
            /\ chatFile = r.pre
            /\ r.appended = <<>> /\ ~r.appendFailed /\ ~r.emitted
            /\ \A i \in 1..Len(r.out) :
                    ~StartsWith(r.out[i], CmdLabel) /\ ~IsSentinelLine(r.out[i])
            /\ r.out[Len(r.out)] = ErrLabel \o ExcText
            /\ (p = 1 /\ wrap = "returned") =>
                    injected = <<>> /\ ExtractCommand(Captured(r.out)) = <<>>

\* C13's case: a `do` call of the wrapper, made while a recording whose chat file and
\* history file already hold an earlier turn is active, has returned after the
\* collaborator raised.
C13_Witness ==
    /\ wrap = "returned"
    /\ proc[1].mode = "do" /\ proc[1].fault = "gen"
    /\ proc[1].cf # 0
    /\ proc[1].pre[proc[1].cf].exists
    /\ Len(proc[1].pre[proc[1].cf].data) > 2
    /\ diskHist # <<>>

====
